---- MODULE Spec2Model ----
(***************************************************************************)
(* Model of update_templates.py: a script that walks the fixed list        *)
(* template_files and, for every file that exists, loads it as JSON,       *)
(* default-fills `readonly` and every bar's `maxHits`, writes it back and   *)
(* prints a notice.                                                        *)
(*                                                                         *)
(* JSON values are tagged records.  A string is a sequence of tokens: the  *)
(* three key words the script tests for, a filler token "x", and the lone  *)
(* surrogate "\ud800" which json.load accepts and a utf-8 file refuses.    *)
(***************************************************************************)
EXTENDS Integers, Sequences, FiniteSets, TLC

VARIABLES
    fs,       \* the file system entry of each listed path
    console,  \* the encoding of stdout
    idx,      \* the position of the for loop in template_files
    pc,       \* the statement the script is at
    data,     \* the variable `data`
    exc,      \* the exception being handled, or the one that ended the script
    out,      \* the notices printed so far in this run
    run,      \* "first" or "second" run of the script
    start,    \* history: the file system when the first run started
    mid,      \* history: the file system when the second run started
    loaded,   \* history: the document json.load returned for each path
    visited,  \* history: the paths the loop reached, in order
    outcome   \* history: how far the loop body got on each path

vars == <<fs, console, idx, pc, data, exc, out, run, start, mid, loaded, visited, outcome>>

\* Longest `bars` list among the documents the files start with.
MaxBars == 2

\* The value line 29 stores in a bar that lacks maxHits.
DefaultMaxHits == 0

\* template_files, lines 5-9.
template_files ==
    << "d:/Coder/music_ball/public/templates/happy-birthday.json",
       "d:/Coder/music_ball/public/templates/happy-birthday-2.json",
       "d:/Coder/music_ball/public/templates/midi-jam.json" >>

Files == 1..Len(template_files)

----------------------------------------------------------------------------
\* JSON values, as json.load builds them.

Null == [t |-> "null"]
Bool(b) == [t |-> "bool", b |-> b]
Num(n) == [t |-> "num", n |-> n]
Str(s) == [t |-> "str", s |-> s]
Arr(items) == [t |-> "arr", items |-> items]
Obj(fields) == [t |-> "obj", fields |-> fields]

\* `data` before the first load, and `loaded` for a file not loaded in this run.
NoData == [t |-> "none"]

\* A field left out when a document of the initial file set is built.
Absent == [t |-> "absent"]

Range(s) == {s[i] : i \in DOMAIN s}

\* Sequences over S of length at most n.
SeqUpTo(S, n) == UNION {[1..k -> S] : k \in 0..n}

\* d[key] = v on a dict.
Put(f, key, v) == [k \in (DOMAIN f) \cup {key} |-> IF k = key THEN v ELSE f[k]]

\* The keys of a dict in some order (iteration order does not change the
\* outcome: a key is a str and is never assigned to).
KeySeq(f) ==
    CHOOSE s \in [1..Cardinality(DOMAIN f) -> DOMAIN f] : Range(s) = DOMAIN f

----------------------------------------------------------------------------
\* Python's operators on the loaded values, as lines 22-29 use them.

\* The lone surrogate json.load yields for "\ud800".
Surrogate == "ud800"

\* `key in v` is defined: a dict, a list or a str; any other value raises
\* TypeError ("argument of type ... is not iterable").
CanContain(v) == v.t \in {"obj", "arr", "str"}

\* `key in v`: a key of a dict, an element of a list, a substring of a str.
Contains(v, key) ==
    CASE v.t = "obj" -> key \in DOMAIN v.fields
      [] v.t = "arr" -> \E i \in DOMAIN v.items : v.items[i] = Str(<<key>>)
      [] v.t = "str" -> key \in Range(v.s)
      [] OTHER -> FALSE

\* `for bar in v` is defined: a list, a dict (its keys) or a str (its
\* characters); any other value raises TypeError.
Iterable(v) == v.t \in {"arr", "obj", "str"}

\* What `for bar in v` yields.  A character of a str is a str of length one,
\* which contains none of the key words; one is yielded per token here.
IterItems(v) ==
    CASE v.t = "arr" -> v.items
      [] v.t = "obj" -> [i \in 1..Cardinality(DOMAIN v.fields) |-> Str(<<KeySeq(v.fields)[i]>>)]
      [] v.t = "str" -> [i \in 1..Len(v.s) |-> Str(<<"c">>)]
      [] OTHER -> <<>>

Done(d) == [ok |-> TRUE, doc |-> d, err |-> "none"]
Raise(d, e) == [ok |-> FALSE, doc |-> d, err |-> e]

\* Lines 22-23 storing the test instead of False: data['readonly'] = 'readonly' in data
FillReadonlyFlag(d) ==
    IF ~CanContain(d) \/ d.t # "obj" THEN Raise(d, "TypeError")
    ELSE Done(Obj(Put(d.fields, "readonly", Bool(Contains(d, "readonly")))))

\* Lines 22-23: if 'readonly' not in data: data['readonly'] = False
FillReadonly(d) ==
    IF ~CanContain(d) THEN Raise(d, "TypeError")
    ELSE IF Contains(d, "readonly") THEN Done(d)
    ELSE IF d.t = "obj" THEN Done(Obj(Put(d.fields, "readonly", Bool(FALSE))))
    ELSE Raise(d, "TypeError")

\* Lines 28-29 building a new bar instead of adding the field to the old one.
FillBarFresh(bar) ==
    IF ~CanContain(bar) THEN Raise(bar, "TypeError")
    ELSE IF Contains(bar, "maxHits") THEN Done(bar)
    ELSE IF bar.t = "obj" THEN Done(Obj([maxHits |-> Num(DefaultMaxHits)]))
    ELSE Raise(bar, "TypeError")

\* Lines 28-29: if 'maxHits' not in bar: bar['maxHits'] = 0
FillBar(bar) ==
    IF ~CanContain(bar) THEN Raise(bar, "TypeError")
    ELSE IF Contains(bar, "maxHits") THEN Done(bar)
    ELSE IF bar.t = "obj" THEN Done(Obj(Put(bar.fields, "maxHits", Num(DefaultMaxHits))))
    ELSE Raise(bar, "TypeError")

\* Lines 27-29: the loop over the bars from position i on.  A bar is changed
\* in place, so the bars before a failing one stay defaulted.
RECURSIVE FillBarsFrom(_, _)
FillBarsFrom(items, i) ==
    IF i > Len(items) THEN [ok |-> TRUE, items |-> items, err |-> "none"]
    ELSE LET r == FillBar(items[i]) IN
         IF ~r.ok THEN [ok |-> FALSE, items |-> items, err |-> r.err]
         ELSE FillBarsFrom([items EXCEPT ![i] = r.doc], i + 1)

\* Lines 26-29: if 'bars' in data: for bar in data['bars']: ...
\* data['bars'] raises TypeError on a list or a str.  Only the elements of a
\* list can be changed: a key or a character is a str.
FillBars(d) ==
    IF ~Contains(d, "bars") THEN Done(d)
    ELSE IF d.t # "obj" THEN Raise(d, "TypeError")
    ELSE LET bars == d.fields["bars"] IN
         IF ~Iterable(bars) THEN Raise(d, "TypeError")
         ELSE LET r == FillBarsFrom(IterItems(bars), 1)
                  after == IF bars.t = "arr"
                           THEN Obj(Put(d.fields, "bars", Arr(r.items)))
                           ELSE d
              IN  [ok |-> r.ok, doc |-> after, err |-> r.err]

\* Lines 22-29.
DefaultFill(d) ==
    LET r == FillReadonly(d) IN IF r.ok THEN FillBars(r.doc) ELSE r

----------------------------------------------------------------------------
\* File contents and the json module.

\* A file's text: a JSON document in some layout, text that is no JSON, no
\* text at all, or the beginning of a serialization that was cut short.
Json(d, style) == [k |-> "json", doc |-> d, style |-> style]
Garbage == [k |-> "garbage"]
EmptyText == [k |-> "empty"]
Partial == [k |-> "partial"]

\* json.load, line 19.
Parse(text) ==
    IF text.k = "json" THEN Done(text.doc) ELSE Raise(NoData, "JSONDecodeError")

\* A str with a lone surrogate somewhere in the value.
RECURSIVE HasSurrogate(_)
HasSurrogate(v) ==
    CASE v.t = "str" -> Surrogate \in Range(v.s)
      [] v.t = "arr" -> \E i \in DOMAIN v.items : HasSurrogate(v.items[i])
      [] v.t = "obj" -> \E k \in DOMAIN v.fields : HasSurrogate(v.fields[k])
      [] OTHER -> FALSE

\* json.dump(data, f, indent=2, ensure_ascii=False) into a utf-8 file, line 33:
\* the whole document in the 2-space layout, or, when a chunk cannot be
\* encoded, UnicodeEncodeError with the chunks before it left in the file.
Dump(d) ==
    IF HasSurrogate(d)
    THEN [ok |-> FALSE, text |-> Partial, err |-> "UnicodeEncodeError"]
    ELSE [ok |-> TRUE, text |-> Json(d, "indent2"), err |-> "none"]

\* A file system entry.  perm "ro" refuses open(.., 'w'), perm "none" refuses
\* open(.., 'r'); os.path.exists sees the entry in both cases.
File(perm, text) == [exists |-> TRUE, perm |-> perm, text |-> text]
Missing == [exists |-> FALSE, perm |-> "rw", text |-> EmptyText]

----------------------------------------------------------------------------
\* The documents the files may hold when the script starts.

\* A dict with the fields that are not Absent.
MkObj(pairs) ==
    LET present == {k \in DOMAIN pairs : pairs[k] # Absent}
    IN  Obj([k \in present |-> pairs[k]])

MkDoc(ro, bars, name) == MkObj([readonly |-> ro, bars |-> bars, name |-> name])
MkBar(mh, note) == MkObj([maxHits |-> mh, note |-> note])

\* Elements of `bars`: a bar without maxHits, a bar with it, and two values
\* that are no records (one that contains the text maxHits, one number).
BarElems ==
    { MkBar(Absent, Str(<<"x">>)), MkBar(Num(5), Absent),
      Str(<<"maxHits">>), Num(5) }

\* Values of `bars`: no field, a list, or something that is no list.
BarsVals ==
    {Absent} \cup {Arr(s) : s \in SeqUpTo(BarElems, MaxBars)}
    \cup { Num(5), Str(<<>>), Str(<<"x">>), Obj([maxHits |-> Num(1)]) }

\* The document of the first end-to-end scenario: {"bars": [{}, {"maxHits": 5}]}.
ScenarioDoc == MkDoc(Absent, Arr(<<MkBar(Absent, Absent), MkBar(Num(5), Absent)>>), Absent)

Docs ==
    \* records: every `bars`, with and without `readonly`
    { MkDoc(ro, b, Absent) : ro \in {Absent, Bool(TRUE)}, b \in BarsVals }
    \* records: other values of `readonly`, other top-level fields
    \cup { MkDoc(ro, b, nm) :
             ro \in {Absent, Bool(FALSE), Null},
             b \in {Absent, Arr(<<MkBar(Absent, Str(<<"x">>)), MkBar(Num(5), Absent)>>)},
             nm \in {Str(<<"x">>), Str(<<Surrogate>>)} }
    \* the documents of the end-to-end scenarios
    \cup { ScenarioDoc, MkDoc(Bool(TRUE), Arr(<<>>), Absent), MkDoc(Bool(FALSE), Absent, Absent) }
    \* documents whose top level is no record
    \cup { Str(<<"readonly">>), Str(<<"readonly", "bars">>), Str(<<"x">>),
           Arr(<<>>), Arr(<<Str(<<"readonly">>)>>),
           Arr(<<Str(<<"readonly">>), Str(<<Surrogate>>)>>), Num(5), Null }

\* What one path may be when the script starts.
FileStates ==
    {Missing, File("rw", Garbage), File("rw", EmptyText)}
    \cup { File("rw", Json(d, "orig")) : d \in Docs }
    \cup { File(p, Json(ScenarioDoc, "orig")) : p \in {"ro", "none"} }
    \cup { File("rw", Json(DefaultFill(ScenarioDoc).doc, "indent2")) }

\* The file states used on the paths beside the one that ranges over all of
\* FileStates.
CoreStates ==
    { Missing,
      File("rw", Json(ScenarioDoc, "orig")),
      File("rw", Json(MkDoc(Absent, Absent, Str(<<Surrogate>>)), "orig")) }

----------------------------------------------------------------------------
\* The script.

\* print(), lines 13, 35, 37, 39.  The notices of lines 35 and 37 start with
\* a check mark and a cross; a console whose encoding has neither (cp1252, a
\* redirected stdout on Windows) raises UnicodeEncodeError on them.  The
\* notices of lines 13 and 39 are ASCII.
NonAscii(kind) == kind \in {"updated", "error"}
Encodes(kind) == console = "utf8" \/ ~NonAscii(kind)

Notice(kind, f, cause) == [kind |-> kind, path |-> f, cause |-> cause]

\* The script starts at the head of the loop with nothing loaded or printed.
\* One path ranges over all of FileStates, the others over CoreStates; stdout
\* is a utf-8 console or a cp1252 one.
Init ==
    /\ \E k \in Files :
         fs \in {g \in [Files -> FileStates] : \A f \in Files \ {k} : g[f] \in CoreStates}
    /\ console \in {"utf8", "cp1252"}
    /\ idx = 1
    /\ pc = "check"
    /\ data = NoData
    /\ exc = "none"
    /\ out = <<>>
    /\ run = "first"
    /\ start = fs
    /\ mid = fs
    /\ loaded = [f \in Files |-> NoData]
    /\ visited = <<>>
    /\ outcome = [f \in Files |-> "none"]

\* The end of one pass through the loop body: the next path, or line 39.
Advance ==
    /\ idx' = idx + 1
    /\ pc' = IF idx = Len(template_files) THEN "final" ELSE "check"

\* Lines 12-14 without the `continue`: the try block is entered and open()
\* raises FileNotFoundError.
SkipMissingNoContinue ==
    /\ pc = "check"
    /\ ~fs[idx].exists
    /\ visited' = Append(visited, idx)
    /\ outcome' = [outcome EXCEPT ![idx] = "missing"]
    /\ out' = Append(out, Notice("notfound", idx, "none"))
    /\ exc' = "FileNotFoundError"
    /\ pc' = "except"
    /\ UNCHANGED <<fs, console, idx, data, run, start, mid, loaded>>

\* Lines 12-14: the path does not exist.
SkipMissing ==
    /\ pc = "check"
    /\ ~fs[idx].exists
    /\ visited' = Append(visited, idx)
    /\ outcome' = [outcome EXCEPT ![idx] = "missing"]
    /\ out' = Append(out, Notice("notfound", idx, "none"))
    /\ Advance
    /\ UNCHANGED <<fs, console, data, exc, run, start, mid, loaded>>

\* Lines 12, 18-19: the path exists; open it for reading and json.load it.
Load ==
    /\ pc = "check"
    /\ fs[idx].exists
    /\ visited' = Append(visited, idx)
    /\ LET r == IF fs[idx].perm = "none"
                THEN Raise(NoData, "PermissionError")
                ELSE Parse(fs[idx].text)
       IN  IF r.ok
           THEN /\ data' = r.doc
                /\ loaded' = [loaded EXCEPT ![idx] = r.doc]
                /\ pc' = "fill"
                /\ UNCHANGED <<exc, outcome>>
           ELSE /\ exc' = r.err
                /\ pc' = "except"
                /\ outcome' = [outcome EXCEPT ![idx] = "load_failed"]
                /\ UNCHANGED <<data, loaded>>
    /\ UNCHANGED <<fs, console, idx, out, run, start, mid>>

\* Lines 22-29.
Fill ==
    /\ pc = "fill"
    /\ LET r == DefaultFill(data)
       IN  /\ data' = r.doc
           /\ IF r.ok
              THEN /\ pc' = "open"
                   /\ UNCHANGED <<exc, outcome>>
              ELSE /\ pc' = "except"
                   /\ exc' = r.err
                   /\ outcome' = [outcome EXCEPT ![idx] = "fill_failed"]
    /\ UNCHANGED <<fs, console, idx, out, run, start, mid, loaded, visited>>

\* Line 32: open(filepath, 'w') empties the file.
OpenWrite ==
    /\ pc = "open"
    /\ IF fs[idx].perm = "ro"
       THEN /\ exc' = "PermissionError"
            /\ pc' = "except"
            /\ outcome' = [outcome EXCEPT ![idx] = "open_failed"]
            /\ fs' = fs
       ELSE /\ fs' = [fs EXCEPT ![idx].text = EmptyText]
            /\ pc' = "dump"
            /\ UNCHANGED <<exc, outcome>>
    /\ UNCHANGED <<console, idx, data, out, run, start, mid, loaded, visited>>

\* Line 33, and the close at the end of the with block.
Save ==
    /\ pc = "dump"
    /\ LET r == Dump(data)
       IN  /\ fs' = [fs EXCEPT ![idx].text = r.text]
           /\ outcome' = [outcome EXCEPT ![idx] = IF r.ok THEN "saved" ELSE "dump_failed"]
           /\ IF r.ok THEN pc' = "report" /\ exc' = exc
                      ELSE pc' = "except" /\ exc' = r.err
    /\ UNCHANGED <<console, idx, data, out, run, start, mid, loaded, visited>>

\* Line 35, inside the try block.
ReportUpdated ==
    /\ pc = "report"
    /\ IF Encodes("updated")
       THEN /\ out' = Append(out, Notice("updated", idx, "none"))
            /\ Advance
            /\ exc' = exc
       ELSE /\ exc' = "UnicodeEncodeError"
            /\ pc' = "except"
            /\ UNCHANGED <<out, idx>>
    /\ UNCHANGED <<fs, console, data, run, start, mid, loaded, visited, outcome>>

\* Lines 36-37: the handler.  An exception raised by its print is caught by
\* nothing: the script ends with a traceback.
ReportError ==
    /\ pc = "except"
    /\ IF Encodes("error")
       THEN /\ out' = Append(out, Notice("error", idx, exc))
            /\ Advance
            /\ exc' = "none"
       ELSE /\ pc' = "aborted"
            /\ exc' = "UnicodeEncodeError"
            /\ UNCHANGED <<out, idx>>
    /\ UNCHANGED <<fs, console, data, run, start, mid, loaded, visited, outcome>>

\* Line 39.
Summary ==
    /\ pc = "final"
    /\ out' = Append(out, Notice("summary", 0, "none"))
    /\ pc' = "done"
    /\ UNCHANGED <<fs, console, idx, data, exc, run, start, mid, loaded, visited, outcome>>

\* The script is run again, on the files and the console as the first run
\* left them.
Rerun ==
    /\ pc \in {"done", "aborted"}
    /\ run = "first"
    /\ run' = "second"
    /\ idx' = 1
    /\ pc' = "check"
    /\ data' = NoData
    /\ exc' = "none"
    /\ out' = <<>>
    /\ mid' = fs
    /\ loaded' = [f \in Files |-> NoData]
    /\ visited' = <<>>
    /\ outcome' = [f \in Files |-> "none"]
    /\ UNCHANGED <<fs, console, start>>

Next ==
    \/ SkipMissing
    \/ Load
    \/ Fill
    \/ OpenWrite
    \/ Save
    \/ ReportUpdated
    \/ ReportError
    \/ Summary
    \/ Rerun

Spec == Init /\ [][Next]_vars

----------------------------------------------------------------------------
\* What the claims speak of.

HasField(v, key) == v.t = "obj" /\ key \in DOMAIN v.fields

\* The file system when the current run started.
RunStart == IF run = "first" THEN start ELSE mid

\* The loop body is over for path f in this run: the loop moved on, or the
\* script ended.
Handled(f) ==
    /\ f \in Range(visited)
    /\ (idx > f \/ pc \in {"final", "done", "aborted"})

\* The notices of this run that name path f.
NoticesFor(f) == SelectSeq(out, LAMBDA n : n.path = f)

\* Load, default-fill and save all completed on path f in this run.
Saved(f) == outcome[f] = "saved"

\* A document without the two defaulted fields.
StripBar(b) ==
    IF b.t = "obj"
    THEN Obj([k \in (DOMAIN b.fields) \ {"maxHits"} |-> b.fields[k]])
    ELSE b

StripDoc(d) ==
    IF d.t # "obj" THEN d
    ELSE Obj([k \in (DOMAIN d.fields) \ {"readonly"} |->
                IF k = "bars" /\ d.fields[k].t = "arr"
                THEN Arr([i \in DOMAIN d.fields[k].items |-> StripBar(d.fields[k].items[i])])
                ELSE d.fields[k]])

\* Two file system entries hold the same document value.
SameValue(a, b) ==
    /\ a.exists = b.exists
    /\ a.text.k = b.text.k
    /\ (a.text.k = "json" => a.text.doc = b.text.doc)

----------------------------------------------------------------------------
\* C1: for every file that was loaded, filled and saved, the saved document
\* has a `readonly` field: false when the loaded document had none, the
\* loaded value otherwise.
C1_ReadonlyPresent ==
    \A f \in Files : Saved(f) =>
        /\ fs[f].text.k = "json"
        /\ HasField(fs[f].text.doc, "readonly")
        /\ fs[f].text.doc.fields["readonly"] =
             IF HasField(loaded[f], "readonly")
             THEN loaded[f].fields["readonly"] ELSE Bool(FALSE)

\* C1 on records only: lines 22-23 do what C1 says when the loaded document
\* is a dict.  A top-level str or list that passes the `in` tests is saved as
\* it was loaded, without a `readonly` field.
C1_OnRecords ==
    \A f \in Files : Saved(f) =>
        /\ fs[f].text.k = "json"
        /\ IF loaded[f].t = "obj"
           THEN /\ HasField(fs[f].text.doc, "readonly")
                /\ fs[f].text.doc.fields["readonly"] =
                     IF HasField(loaded[f], "readonly")
                     THEN loaded[f].fields["readonly"] ELSE Bool(FALSE)
           ELSE fs[f].text.doc = loaded[f]

\* Two saved records in one run: one that had no `readonly` and one whose
\* `readonly` was neither true nor false.
C1_OnRecordsWitness ==
    \E f, g \in Files :
        /\ Saved(f) /\ loaded[f].t = "obj" /\ ~HasField(loaded[f], "readonly")
        /\ Saved(g) /\ HasField(loaded[g], "readonly")
        /\ loaded[g].fields["readonly"] = Null

\* C2: for every saved file whose document has a `bars` list, every element
\* of the saved `bars` has maxHits: 0 when the loaded element had none, the
\* loaded value otherwise; a document without `bars` gets none.
C2_MaxHitsPresent ==
    \A f \in Files : Saved(f) =>
        IF HasField(loaded[f], "bars")
        THEN loaded[f].fields["bars"].t = "arr" =>
               LET b0 == loaded[f].fields["bars"].items
                   b1 == fs[f].text.doc.fields["bars"].items
               IN  /\ Len(b1) = Len(b0)
                   /\ \A i \in DOMAIN b0 :
                        /\ HasField(b1[i], "maxHits")
                        /\ b1[i].fields["maxHits"] =
                             IF HasField(b0[i], "maxHits")
                             THEN b0[i].fields["maxHits"] ELSE Num(0)
        ELSE ~HasField(fs[f].text.doc, "bars")

\* C2 on records only: lines 26-29 do what C2 says for every element of
\* `bars` that is a dict.  An element that is a str containing "maxHits"
\* passes the `in` test and is saved as it was loaded, without the field.
C2_OnRecords ==
    \A f \in Files : Saved(f) =>
        IF HasField(loaded[f], "bars")
        THEN loaded[f].fields["bars"].t = "arr" =>
               LET b0 == loaded[f].fields["bars"].items
                   b1 == fs[f].text.doc.fields["bars"].items
               IN  /\ Len(b1) = Len(b0)
                   /\ \A i \in DOMAIN b0 :
                        IF b0[i].t = "obj"
                        THEN /\ HasField(b1[i], "maxHits")
                             /\ b1[i].fields["maxHits"] =
                                  IF HasField(b0[i], "maxHits")
                                  THEN b0[i].fields["maxHits"] ELSE Num(0)
                        ELSE b1[i] = b0[i]
        ELSE ~HasField(fs[f].text.doc, "bars")

\* A saved file whose `bars` held a bar without maxHits and a bar with
\* maxHits 5, and a saved file without `bars`.
C2_OnRecordsWitness ==
    \E f, g \in Files :
        /\ Saved(f) /\ HasField(loaded[f], "bars")
        /\ loaded[f].fields["bars"].t = "arr"
        /\ \E i, j \in DOMAIN loaded[f].fields["bars"].items :
             LET b0 == loaded[f].fields["bars"].items
             IN  /\ b0[i].t = "obj" /\ ~HasField(b0[i], "maxHits")
                 /\ HasField(b0[j], "maxHits") /\ b0[j].fields["maxHits"] = Num(5)
        /\ Saved(g) /\ loaded[g].t = "obj" /\ ~HasField(loaded[g], "bars")

\* C3: a saved document differs from the loaded one in nothing but
\* `readonly` and the maxHits of the bars: with those fields taken away the
\* two are equal, bar by bar in the same order, and a bar that had maxHits
\* is at its position unchanged.
C3_Frame ==
    \A f \in Files : Saved(f) =>
        /\ fs[f].text.k = "json"
        /\ StripDoc(fs[f].text.doc) = StripDoc(loaded[f])
        /\ (HasField(loaded[f], "bars") /\ loaded[f].fields["bars"].t = "arr") =>
             LET b0 == loaded[f].fields["bars"].items
                 b1 == fs[f].text.doc.fields["bars"].items
             IN  /\ Len(b1) = Len(b0)
                 /\ \A i \in DOMAIN b0 : HasField(b0[i], "maxHits") => b1[i] = b0[i]

\* A saved file that was changed, with another top-level field and a bar
\* that got maxHits beside a field of its own.
C3_Witness ==
    \E f \in Files :
        /\ Saved(f) /\ fs[f].text.doc # loaded[f]
        /\ HasField(loaded[f], "name") /\ HasField(loaded[f], "bars")
        /\ loaded[f].fields["bars"].t = "arr"
        /\ \E i \in DOMAIN loaded[f].fields["bars"].items :
             /\ HasField(loaded[f].fields["bars"].items[i], "note")
             /\ ~HasField(loaded[f].fields["bars"].items[i], "maxHits")
             /\ HasField(fs[f].text.doc.fields["bars"].items[i], "maxHits")

\* C4: in a second run, whenever the loop is between two paths or the script
\* has ended, every file holds the document value it held when the second
\* run started.
C4_Idempotent ==
    (run = "second" /\ pc \in {"check", "final", "done", "aborted"}) =>
        \A f \in Files : SameValue(fs[f], mid[f])

\* The second run ended after saving a file that the first run had changed.
C4_Witness ==
    /\ run = "second" /\ pc = "done"
    /\ \E f \in Files :
         /\ Saved(f)
         /\ ~SameValue(start[f], mid[f])
         /\ SameValue(fs[f], mid[f])

\* C5: once the loop has reached a path that does not exist, nothing was
\* loaded for it, no file is at that path, its only notice is the not-found
\* notice, and the loop is at a later path or past the list.
C5_MissingSkipped ==
    \A f \in Files : (f \in Range(visited) /\ ~RunStart[f].exists) =>
        /\ loaded[f] = NoData
        /\ outcome[f] = "missing"
        /\ fs[f] = RunStart[f]
        /\ NoticesFor(f) = <<Notice("notfound", f, "none")>>
        /\ idx > f

\* A missing path was skipped and a later path was then saved.
C5_Witness ==
    \E f, g \in Files :
        /\ f < g
        /\ f \in Range(visited) /\ ~RunStart[f].exists
        /\ Saved(g)

\* C6: when the load or the default-fill of a path failed and the loop body
\* is over for it, the file is as it was, the one notice for the path is an
\* error notice, and the loop went on to the next path.
C6_FailureBeforeSave ==
    \A f \in Files :
        (outcome[f] \in {"load_failed", "fill_failed"} /\ Handled(f)) =>
            /\ fs[f] = RunStart[f]
            /\ Len(NoticesFor(f)) = 1
            /\ NoticesFor(f)[1].kind = "error"
            /\ idx > f

\* C6 on a console that can encode the error notice.
C6_WhenEncodable == console = "utf8" => C6_FailureBeforeSave

\* C7: the script never ends early; the loop reaches the paths once each in
\* listed order, one at a time; the summary is printed once, last, and only
\* after every path was reached.
C7_NoAbort ==
    /\ pc # "aborted"
    /\ \A i \in DOMAIN visited : visited[i] = i
    /\ \A f \in Files : (f \in Range(visited) /\ f < idx) => outcome[f] # "none"
    /\ \A f \in Files : f > idx => outcome[f] = "none"
    /\ \A i \in DOMAIN out : out[i].kind = "summary" => (i = Len(out) /\ pc = "done")
    /\ pc = "done" =>
         /\ visited = [i \in Files |-> i]
         /\ Len(out) > 0 /\ out[Len(out)].kind = "summary"

\* C7 on a console that can encode the per-file notices.
C7_WhenEncodable == console = "utf8" => C7_NoAbort

\* C8: when opening the file for writing or the dump failed and the loop body
\* is over for the path, the one notice for the path is an error notice and
\* the loop went on to the next path.
C8_SaveFailureCaught ==
    \A f \in Files :
        (outcome[f] \in {"open_failed", "dump_failed"} /\ Handled(f)) =>
            /\ \A i \in DOMAIN NoticesFor(f) : NoticesFor(f)[i].kind # "updated"
            /\ \E i \in DOMAIN NoticesFor(f) :
                 /\ NoticesFor(f)[i].kind = "error"
                 /\ NoticesFor(f)[i].cause = (IF outcome[f] = "open_failed"
                                              THEN "PermissionError"
                                              ELSE "UnicodeEncodeError")
            /\ idx > f

\* C8 on a console that can encode the error notice.
C8_WhenEncodable == console = "utf8" => C8_SaveFailureCaught

\* C9: when the loop has moved on from a path, the file holds the text it
\* held when the run started or the whole default-filled document.
C9_NoPartialWrite ==
    \A f \in Files : (f \in Range(visited) /\ idx > f) =>
        \/ fs[f].text = RunStart[f].text
        \/ /\ loaded[f] # NoData
           /\ fs[f].text = Json(DefaultFill(loaded[f]).doc, "indent2")

\* C10: a path the loop is done with has exactly one notice; at the end of
\* the run every path has one; an updated notice names a saved file and an
\* error notice a file that was not saved.
C10_NoticesMatch ==
    /\ \A f \in Files :
         (Handled(f) \/ pc \in {"done", "aborted"}) => Len(NoticesFor(f)) = 1
    /\ \A i \in DOMAIN out :
         /\ out[i].kind = "updated" =>
              (Saved(out[i].path) /\ fs[out[i].path].text.k = "json")
         /\ out[i].kind = "error" => ~Saved(out[i].path)

\* C10 on a console that can encode the per-file notices.
C10_WhenEncodable == console = "utf8" => C10_NoticesMatch

====
